---------------------------- MODULE Spec2Model ----------------------------
(***************************************************************************)
(* ProSprint AI: prompt -> actions -> approval -> execution -> activity    *)
(* log.  A model of prosprint/core (action, prompt_processor, executor,    *)
(* prosprint), prosprint/integrations and prosprint/utils/logger.          *)
(*                                                                         *)
(* Representation of Python values:                                        *)
(*   str            a sequence of strings, read as their concatenation; a  *)
(*                  prompt is a sequence of one-character strings, a       *)
(*                  literal is one piece, "" is << >> (falsy)              *)
(*   Optional[X]    << >> for None, << x >> for a value x                  *)
(*   dict           a sequence of << key, value >> pairs in insertion      *)
(*                  order                                                  *)
(*   Action object  an element of store; its id is its index in store      *)
(*   datetime       the number of its calendar day                         *)
(*   log file       files maps the YYYYMMDD of activity_YYYYMMDD.jsonl to   *)
(*                  the records of the file, in the order of its lines     *)
(***************************************************************************)
EXTENDS Integers, Sequences, FiniteSets, TLC

VARIABLES
    cfg,        \* config.Config: the credentials read from the environment
    logFaults,  \* whether the file system may refuse an append to the log
    store,      \* every Action object created so far, by id
    files,      \* the log directory: day |-> records of activity_<day>.jsonl
    today,      \* the calendar day of datetime.now()
    loggerDay,  \* the date ActivityLogger.__init__ put in the name of self.log_file
    pc,         \* where the running call stands
    run,        \* the running (or last) call of process_prompt or execute_batch
    ret,        \* how the last call ended and what it returned
    trace,      \* the adapter calls made by the running (or last) call
    nexec,      \* calls of ActionExecutor.execute so far
    pin,        \* PromptProcessor.process under test: its input
    pout,       \* PromptProcessor.process under test: what it returned
    lg,         \* ActivityLogger under test: the last operation on it
    everExecuting   \* history: the ids of the actions whose status has been EXECUTING

vars == << cfg, logFaults, store, files, today, loggerDay, pc, run, ret,
           trace, nexec, pin, pout, lg, everExecuting >>

---------------------------------------------------------------------------
(* Bounds of the model *)

MaxFragments == 2   \* pieces a prompt under test is made of
MaxInput == 4       \* pieces of a prompt plus elements of the answer to it
MaxActions == 2     \* Action objects created in one behaviour
MaxExec == 3        \* calls of ActionExecutor.execute in one behaviour
MaxBatch == 2       \* length of a list handed to execute_batch directly
MaxDay == 2         \* calendar days a logger under test lives through
MaxRecords == 3     \* records a logger under test writes
MaxLimit == 2       \* the limit get_recent_logs is called with

---------------------------------------------------------------------------
(* Python values *)

None == << >>

Some(x) == << x >>

Truthy(s) == s # << >>

\* dict.get(key, default)
DictGet(d, key, default) ==
    IF \E i \in 1..Len(d) : d[i][1] = key
    THEN d[CHOOSE i \in 1..Len(d) : d[i][1] = key][2]
    ELSE default

DictHas(d, key) == \E i \in 1..Len(d) : d[i][1] = key

UpperLetters == <<"A", "B", "C", "D", "E", "F", "G", "H", "I", "J", "K", "L", "M", "N", "O", "P", "Q", "R", "S", "T", "U", "V", "W", "X", "Y", "Z">>

LowerLetters == <<"a", "b", "c", "d", "e", "f", "g", "h", "i", "j", "k", "l", "m", "n", "o", "p", "q", "r", "s", "t", "u", "v", "w", "x", "y", "z">>

\* the lower-case letter of each upper-case letter
LowerOf ==
    [c \in { UpperLetters[i] : i \in 1..Len(UpperLetters) } |->
        LowerLetters[CHOOSE i \in 1..Len(UpperLetters) : UpperLetters[i] = c]]

\* a mutant of LowerChar: a capital E is left as it is
LowerCharButE(c) == IF c \in DOMAIN LowerOf /\ c # "E" THEN LowerOf[c] ELSE c

LowerChar(c) == IF c \in DOMAIN LowerOf THEN LowerOf[c] ELSE c

\* a mutant of Lower: the prompt is matched as typed
LowerAsTyped(s) == s

\* str.lower()
Lower(s) == [i \in 1..Len(s) |-> LowerChar(s[i])]

\* needle in hay
Contains(hay, needle) ==
    \E i \in 0..(Len(hay) - Len(needle)) :
        \A k \in 1..Len(needle) : hay[i + k] = needle[k]

---------------------------------------------------------------------------
(* core/action.py *)

CRM_UPDATE == "crm_update"
SEND_EMAIL == "send_email"
SLACK_POST == "slack_post"
DRAFT_REPORT == "draft_report"
SUMMARIZE_DOCUMENT == "summarize_document"
CUSTOM == "custom"

ActionType ==
    {CRM_UPDATE, SEND_EMAIL, SLACK_POST, DRAFT_REPORT, SUMMARIZE_DOCUMENT, CUSTOM}

PENDING == "pending"
APPROVED == "approved"
EXECUTING == "executing"
COMPLETED == "completed"
FAILED == "failed"
CANCELLED == "cancelled"

ActionStatus == {PENDING, APPROVED, EXECUTING, COMPLETED, FAILED, CANCELLED}

\* Action(id=..., type=..., description=..., parameters=...): the other
\* fields take their defaults
Action(id, type, description, parameters, now) ==
    [id |-> id, type |-> type, description |-> description,
     parameters |-> parameters, status |-> PENDING, created_at |-> now,
     executed_at |-> None, result |-> None, error |-> None]

RECURSIVE ParameterLines(_)
\* the lines to_preview appends in "for key, value in self.parameters.items()",
\* each after the "\n" that joins it to the line before
ParameterLines(ps) ==
    IF ps = << >> THEN << >>
    ELSE <<"\n", "  - ", Head(ps)[1], ": ">> \o Head(ps)[2] \o ParameterLines(Tail(ps))

\* a mutant of ToPreview: the preview also shows the status
ToPreviewWithStatus(a) ==
    <<"Action: ", a.type, "\n", "Status: ", a.status, "\n", "Description: ">>
        \o a.description \o <<"\n", "Parameters:">> \o ParameterLines(a.parameters)

\* Action.to_preview
ToPreview(a) ==
    <<"Action: ", a.type, "\n", "Description: ">> \o a.description
        \o <<"\n", "Parameters:">> \o ParameterLines(a.parameters)

---------------------------------------------------------------------------
(* core/prompt_processor.py *)

KW_email == <<"e", "m", "a", "i", "l">>
KW_send == <<"s", "e", "n", "d">>
KW_mail == <<"m", "a", "i", "l">>
KW_slack == <<"s", "l", "a", "c", "k">>
KW_post == <<"p", "o", "s", "t">>
KW_crm == <<"c", "r", "m">>
KW_update == <<"u", "p", "d", "a", "t", "e">>
KW_contact == <<"c", "o", "n", "t", "a", "c", "t">>
KW_report == <<"r", "e", "p", "o", "r", "t">>
KW_draft == <<"d", "r", "a", "f", "t">>
KW_summarize == <<"s", "u", "m", "m", "a", "r", "i", "z", "e">>
KW_summary == <<"s", "u", "m", "m", "a", "r", "y">>

\* the five keyword tests of _process_fallback, on prompt.lower()
MatchesEmail(pl) ==
    Contains(pl, KW_email) \/ (Contains(pl, KW_send) /\ Contains(pl, KW_mail))

MatchesSlack(pl) == Contains(pl, KW_slack) \/ Contains(pl, KW_post)

\* a mutant of MatchesCRM: the other grouping of "or" and "and"
MatchesCRMGrouped(pl) ==
    (Contains(pl, KW_crm) \/ Contains(pl, KW_update)) /\ Contains(pl, KW_contact)

MatchesCRM(pl) ==
    Contains(pl, KW_crm) \/ (Contains(pl, KW_update) /\ Contains(pl, KW_contact))

MatchesReport(pl) == Contains(pl, KW_report) \/ Contains(pl, KW_draft)

MatchesSummary(pl) == Contains(pl, KW_summarize) \/ Contains(pl, KW_summary)

EmailAction(prompt, id, now) ==
    Action(id, SEND_EMAIL, <<"Send email based on: ">> \o prompt,
           << <<"subject", <<"Email from ProSprint AI">> >>,
              <<"body", prompt>>,
              <<"recipient", <<"recipient@example.com">> >> >>, now)

SlackAction(prompt, channel, id, now) ==
    Action(id, SLACK_POST, <<"Post to Slack: ">> \o prompt,
           << <<"channel", IF Truthy(channel) THEN channel ELSE <<"#general">> >>,
              <<"message", prompt>> >>, now)

CRMAction(prompt, id, now) ==
    Action(id, CRM_UPDATE, <<"Update CRM based on: ">> \o prompt,
           << <<"action", <<"update">> >>, <<"details", prompt>> >>, now)

ReportAction(prompt, id, now) ==
    Action(id, DRAFT_REPORT, <<"Draft report: ">> \o prompt,
           << <<"title", <<"Report from ProSprint AI">> >>,
              <<"content", prompt>> >>, now)

SummaryAction(prompt, id, now) ==
    Action(id, SUMMARIZE_DOCUMENT, <<"Summarize: ">> \o prompt,
           << <<"text", prompt>> >>, now)

CustomAction(prompt, id, now) ==
    Action(id, CUSTOM, <<"Execute custom action: ">> \o prompt,
           << <<"prompt", prompt>> >>, now)

\* a mutant of WithCustom: the custom action is appended whatever was found
WithCustomAlways(actions, prompt, base, now) ==
    Append(actions, CustomAction(prompt, base + Len(actions) + 1, now))

\* "if not actions: actions.append(custom)"
WithCustom(actions, prompt, base, now) ==
    IF actions = << >>
    THEN Append(actions, CustomAction(prompt, base + Len(actions) + 1, now))
    ELSE actions

\* a mutant of ProcessFallback: the keyword tests are an if/elif chain
ProcessFallbackFirstMatch(prompt, channel, base, now) ==
    LET pl == Lower(prompt)
    IN  IF MatchesEmail(pl) THEN << EmailAction(prompt, base + 1, now) >>
        ELSE IF MatchesSlack(pl) THEN << SlackAction(prompt, channel, base + 1, now) >>
        ELSE IF MatchesCRM(pl) THEN << CRMAction(prompt, base + 1, now) >>
        ELSE IF MatchesReport(pl) THEN << ReportAction(prompt, base + 1, now) >>
        ELSE IF MatchesSummary(pl) THEN << SummaryAction(prompt, base + 1, now) >>
        ELSE << CustomAction(prompt, base + 1, now) >>

\* PromptProcessor._process_fallback; the ids are base+1, base+2, ...
ProcessFallback(prompt, channel, base, now) ==
    LET pl == Lower(prompt)
        a1 == IF MatchesEmail(pl)
              THEN << EmailAction(prompt, base + 1, now) >> ELSE << >>
        a2 == IF MatchesSlack(pl)
              THEN Append(a1, SlackAction(prompt, channel, base + Len(a1) + 1, now))
              ELSE a1
        a3 == IF MatchesCRM(pl)
              THEN Append(a2, CRMAction(prompt, base + Len(a2) + 1, now))
              ELSE a2
        a4 == IF MatchesReport(pl)
              THEN Append(a3, ReportAction(prompt, base + Len(a3) + 1, now))
              ELSE a3
        a5 == IF MatchesSummary(pl)
              THEN Append(a4, SummaryAction(prompt, base + Len(a4) + 1, now))
              ELSE a4
    IN  WithCustom(a5, prompt, base, now)

(* The language-model exchange.  A response is                             *)
(*   [kind |-> "call_failed"]   create(...) raised                         *)
(*   [kind |-> "not_json"]      json.loads(content) raised                 *)
(*   [kind |-> "scalar"]        content is a JSON number, true or null     *)
(*   [kind |-> "array"]         content is a JSON array of objects; an     *)
(*                              object is [keys, type, description,        *)
(*                              parameters], keys the keys it carries      *)
Response(kind, elements) == [kind |-> kind, elements |-> elements]

\* Action(type=ActionType(d["type"]), description=d["description"],
\*        parameters=d.get("parameters", {})) raises for this element
ElementRaises(d) ==
    \/ "type" \notin d.keys
    \/ d.type \notin ActionType
    \/ "description" \notin d.keys

ElementAction(d, id, now) ==
    Action(id, d.type, d.description,
           IF "parameters" \in d.keys THEN d.parameters ELSE << >>, now)

\* the loop over actions_data: << TRUE, actions >> when it ran to its end,
\* << FALSE, _ >> when building an element raised
RECURSIVE BuildActions(_, _, _, _)
\* a mutant of BuildActions: an element that cannot be built is skipped
BuildActionsSkipping(elements, acc, base, now) ==
    IF elements = << >> THEN << TRUE, acc >>
    ELSE IF ElementRaises(Head(elements))
         THEN BuildActions(Tail(elements), acc, base, now)
         ELSE BuildActions(Tail(elements),
                  Append(acc, ElementAction(Head(elements), base + Len(acc) + 1, now)),
                  base, now)

\* a mutant of BuildActions: at an element that cannot be built the loop
\* ends and what was built is returned
BuildActionsKeeping(elements, acc, base, now) ==
    IF elements = << >> THEN << TRUE, acc >>
    ELSE IF ElementRaises(Head(elements))
         THEN << acc # << >>, acc >>
         ELSE BuildActions(Tail(elements),
                  Append(acc, ElementAction(Head(elements), base + Len(acc) + 1, now)),
                  base, now)

BuildActions(elements, acc, base, now) ==
    IF elements = << >> THEN << TRUE, acc >>
    ELSE IF ElementRaises(Head(elements))
         THEN << FALSE, acc >>
         ELSE BuildActions(Tail(elements),
                  Append(acc, ElementAction(Head(elements), base + Len(acc) + 1, now)),
                  base, now)

\* the try block of process: << TRUE, actions >> on return, << FALSE, _ >>
\* when anything in it raised
ProcessPrimary(response, base, now) ==
    IF response.kind = "array"
    THEN BuildActions(response.elements, << >>, base, now)
    ELSE << FALSE, << >> >>

\* PromptProcessor.process, for a processor whose api key is api_key
Process(prompt, api_key, channel, response, base, now) ==
    IF ~Truthy(api_key)
    THEN ProcessFallback(prompt, channel, base, now)
    ELSE LET r == ProcessPrimary(response, base, now)
         IN  IF r[1] THEN r[2]
             ELSE ProcessFallback(prompt, channel, base, now)

---------------------------------------------------------------------------
(* config.py *)

Secret == <<"secret">>

\* Config(): every variable is a string, "" when the environment lacks it
Config(openai, slack, channel, host, user, password, crmkey, crmurl, doc) ==
    [openai_api_key |-> openai, slack_token |-> slack, slack_channel |-> channel,
     smtp_host |-> host, smtp_user |-> user, smtp_password |-> password,
     crm_api_key |-> crmkey, crm_api_url |-> crmurl,
     document_credentials |-> doc]

---------------------------------------------------------------------------
(* integrations: what one call of an adapter may do.  An outcome is        *)
(* [kind |-> "return", result |-> dict] or [kind |-> "raise", message |->  *)
(* str].                                                                   *)

Returns(result) == [kind |-> "return", result |-> result, message |-> << >>]

Raises(message) == [kind |-> "raise", result |-> << >>, message |-> message]

\* a mutant of CRMExecute: simulated only when both credentials are missing
CRMExecuteBothMissing(c, a) ==
    IF ~Truthy(c.crm_api_key) /\ ~Truthy(c.crm_api_url)
    THEN { Returns(<< <<"status", <<"simulated">> >> >>) }
    ELSE { Returns(<< <<"status", <<"completed">> >>,
                     <<"message", <<"CRM updated successfully">> >>,
                     <<"data", a.parameters>> >>) }

\* CRMIntegration.execute
CRMExecute(c, a) ==
    IF ~Truthy(c.crm_api_key) \/ ~Truthy(c.crm_api_url)
    THEN { Returns(<< <<"status", <<"simulated">> >>,
                     <<"message", <<"CRM action simulated (no credentials configured)">> >>,
                     <<"action", DictGet(a.parameters, "action", <<"update">>)>>,
                     <<"details", DictGet(a.parameters, "details", << >>)>> >>) }
    ELSE { Returns(<< <<"status", <<"completed">> >>,
                     <<"message", <<"CRM updated successfully">> >>,
                     <<"data", a.parameters>> >>) }

\* EmailIntegration.execute; with SMTP configured the send succeeds or the
\* server refuses it
EmailExecute(c, a) ==
    LET recipient == DictGet(a.parameters, "recipient", << >>)
        subject == DictGet(a.parameters, "subject", <<"ProSprint AI Notification">>)
    IN  IF ~(Truthy(c.smtp_host) /\ Truthy(c.smtp_user) /\ Truthy(c.smtp_password))
        THEN { Returns(<< <<"status", <<"simulated">> >>,
                         <<"message", <<"Email simulated (no SMTP configured): ">>
                                      \o subject \o <<" to ">> \o recipient>>,
                         <<"recipient", recipient>>,
                         <<"subject", subject>> >>) }
        ELSE { Returns(<< <<"status", <<"completed">> >>,
                         <<"message", <<"Email sent to ">> \o recipient>>,
                         <<"recipient", recipient>>,
                         <<"subject", subject>> >>),
               Raises(<<"Failed to send email: ", "smtp error">>) }

\* a mutant of SlackExecute: without a token the post is refused
SlackExecuteNeedsToken(c, a) ==
    IF ~Truthy(c.slack_token)
    THEN { Raises(<<"not_authed">>) }
    ELSE { Returns(<< <<"status", <<"completed">> >> >>) }

\* SlackIntegration.execute
SlackExecute(c, a) ==
    LET channel == DictGet(a.parameters, "channel", c.slack_channel)
        message == DictGet(a.parameters, "message", << >>)
    IN  IF ~Truthy(c.slack_token)
        THEN { Returns(<< <<"status", <<"simulated">> >>,
                         <<"message", <<"Slack message simulated (no token configured): '">>
                                      \o message \o <<"' to ">> \o channel>>,
                         <<"channel", channel>>,
                         <<"text", message>> >>) }
        ELSE { Returns(<< <<"status", <<"completed">> >>,
                         <<"message", <<"Posted to Slack channel ">> \o channel>>,
                         <<"channel", channel>>,
                         <<"text", message>> >>) }

\* DocumentIntegration.draft_report (4.3 of the design: simulated without
\* credentials, else completed or raising; the artifact is keyed "report")
DocumentDraftReport(c, a) ==
    IF ~Truthy(c.document_credentials)
    THEN { Returns(<< <<"status", <<"simulated">> >>,
                     <<"report", <<"report on: ">> \o DictGet(a.parameters, "content", << >>)>> >>) }
    ELSE { Returns(<< <<"status", <<"completed">> >>,
                     <<"report", <<"report on: ">> \o DictGet(a.parameters, "content", << >>)>> >>),
           Raises(<<"document service error">>) }

\* DocumentIntegration.summarize (as above; the artifact is keyed "summary")
DocumentSummarize(c, a) ==
    IF ~Truthy(c.document_credentials)
    THEN { Returns(<< <<"status", <<"simulated">> >>,
                     <<"summary", <<"summary of: ">> \o DictGet(a.parameters, "text", << >>)>> >>) }
    ELSE { Returns(<< <<"status", <<"completed">> >>,
                     <<"summary", <<"summary of: ">> \o DictGet(a.parameters, "text", << >>)>> >>),
           Raises(<<"document service error">>) }

---------------------------------------------------------------------------
(* utils/logger.py *)

\* the log_entry of log_action
LogEntry(a, now) ==
    [timestamp |-> now, action_id |-> a.id, action_type |-> a.type,
     description |-> a.description, status |-> a.status,
     parameters |-> a.parameters, result |-> a.result, error |-> a.error]

\* open(self.log_file, "a") and write raised
LogError == <<"[Errno 28] No space left on device">>

\* datetime.strftime('%Y%m%d') of the days of the model
DayNames == <<"20240101", "20240102", "20240103", "20240104">>

Strftime(day) == DayNames[day]

\* ActivityLogger.__init__: the date in the name of self.log_file
LogFile(now) == Strftime(now)

\* a mutant of Written: the file is opened with "w"
WrittenTruncating(fs, date, records) ==
    IF records = << >> THEN fs
    ELSE IF date \in DOMAIN fs THEN [fs EXCEPT ![date] = records]
         ELSE fs @@ (date :> records)

\* ActivityLogger.log_action's write: the records join the file of the date,
\* which open(..., "a") creates if it is absent
Written(fs, date, records) ==
    IF records = << >> THEN fs
    ELSE IF date \in DOMAIN fs THEN [fs EXCEPT ![date] = @ \o records]
         ELSE fs @@ (date :> records)

\* the Python slice s[start:]
SliceFrom(s, start) ==
    LET n == Len(s)
        b == IF start < 0 THEN (IF n + start < 0 THEN 0 ELSE n + start)
             ELSE (IF start > n THEN n ELSE start)
    IN  SubSeq(s, b + 1, n)

\* the lines of a file that exists or not
ReadLines(fs, date) == IF date \in DOMAIN fs THEN fs[date] ELSE << >>

\* a mutant of GetRecentLogs: logs[:limit]
GetRecentLogsOldest(fs, logfile, limit) ==
    SubSeq(ReadLines(fs, logfile), 1,
           IF limit > Len(ReadLines(fs, logfile)) THEN Len(ReadLines(fs, logfile))
           ELSE limit)

\* ActivityLogger.get_recent_logs of a logger whose self.log_file is logfile
GetRecentLogs(fs, logfile, limit) == SliceFrom(ReadLines(fs, logfile), 0 - limit)

\* ActivityLogger.get_logs_by_date
GetLogsByDate(fs, date) == ReadLines(fs, date)

---------------------------------------------------------------------------
(* core/executor.py *)

\* the adapter operation execute maps a type to; "none" for a custom action
Adapter(type) ==
    CASE type = CRM_UPDATE -> "crm.execute"
      [] type = SEND_EMAIL -> "email.execute"
      [] type = SLACK_POST -> "slack.execute"
      [] type = DRAFT_REPORT -> "document.draft_report"
      [] type = SUMMARIZE_DOCUMENT -> "document.summarize"
      [] OTHER -> "none"

\* a mutant of Dispatch: both document types go to draft_report
DispatchOneDocument(c, a) ==
    CASE a.type = CRM_UPDATE -> CRMExecute(c, a)
      [] a.type = SEND_EMAIL -> EmailExecute(c, a)
      [] a.type = SLACK_POST -> SlackExecute(c, a)
      [] a.type \in {DRAFT_REPORT, SUMMARIZE_DOCUMENT} -> DocumentDraftReport(c, a)
      [] OTHER -> { Returns(<< <<"status", <<"completed">> >>,
                              <<"message", <<"Custom action executed">> >> >>) }

\* a mutant of Dispatch: a CRM update falls through to the else branch
DispatchFallsThrough(c, a) ==
    CASE a.type = SEND_EMAIL -> EmailExecute(c, a)
      [] a.type = SLACK_POST -> SlackExecute(c, a)
      [] a.type = DRAFT_REPORT -> DocumentDraftReport(c, a)
      [] a.type = SUMMARIZE_DOCUMENT -> DocumentSummarize(c, a)
      [] OTHER -> { Returns(<< <<"status", <<"completed">> >>,
                              <<"message", <<"Custom action executed">> >> >>) }

\* the if/elif chain of execute: the outcomes the dispatched call may have
Dispatch(c, a) ==
    CASE a.type = CRM_UPDATE -> CRMExecute(c, a)
      [] a.type = SEND_EMAIL -> EmailExecute(c, a)
      [] a.type = SLACK_POST -> SlackExecute(c, a)
      [] a.type = DRAFT_REPORT -> DocumentDraftReport(c, a)
      [] a.type = SUMMARIZE_DOCUMENT -> DocumentSummarize(c, a)
      [] OTHER -> { Returns(<< <<"status", <<"completed">> >>,
                              <<"message", <<"Custom action executed">> >> >>) }

\* a mutant of ExecuteEnter: the time of execution is not recorded
ExecuteEnterUnstamped(a, now) ==
    [a EXCEPT !.status = EXECUTING]

\* the first two statements of execute
ExecuteEnter(a, now) ==
    [a EXCEPT !.status = EXECUTING, !.executed_at = Some(now)]

(* The rest of execute, from the return (or raise) o of the dispatched     *)
(* call on; ok1 and ok2 say whether the first and the second log_action    *)
(* this call makes go through.  The value is the action as execute leaves  *)
(* it, the records appended to the log, and whether execute raised.        *)
Left(a, appended, raised) == [action |-> a, appended |-> appended, raised |-> raised]

\* a mutant of ExecuteExcept: a failure is not logged
ExecuteExceptUnlogged(a, message, ok, now) ==
    Left([a EXCEPT !.status = FAILED, !.error = Some(message)], << >>, ~ok)

\* a mutant of ExecuteExcept: the failure is logged and raised again
ExecuteExceptReraises(a, message, ok, now) ==
    LET f == [a EXCEPT !.status = FAILED, !.error = Some(message)]
    IN  IF ok THEN Left(f, << LogEntry(f, now) >>, TRUE)
        ELSE Left(f, << >>, TRUE)

\* the except block of execute, entered with the message of the exception
ExecuteExcept(a, message, ok, now) ==
    LET f == [a EXCEPT !.status = FAILED, !.error = Some(message)]
    IN  IF ok THEN Left(f, << LogEntry(f, now) >>, FALSE)
        ELSE Left(f, << >>, TRUE)

\* a mutant of ExecuteLeave: the adapter's exception is not caught
ExecuteLeaveNoCatch(a, o, ok1, ok2, now) ==
    IF o.kind = "raise"
    THEN Left(a, << >>, TRUE)
    ELSE LET d == [a EXCEPT !.status = COMPLETED, !.result = Some(o.result)]
         IN  IF ok1 THEN Left(d, << LogEntry(d, now) >>, FALSE)
             ELSE ExecuteExcept(d, LogError, ok2, now)

\* a mutant of ExecuteLeave: the parameters are consumed by the execution
ExecuteLeaveClearing(a, o, ok1, ok2, now) ==
    IF o.kind = "raise"
    THEN ExecuteExcept([a EXCEPT !.parameters = << >>], o.message, ok1, now)
    ELSE LET d == [a EXCEPT !.status = COMPLETED, !.result = Some(o.result),
                            !.parameters = << >>]
         IN  IF ok1 THEN Left(d, << LogEntry(d, now) >>, FALSE)
             ELSE ExecuteExcept(d, LogError, ok2, now)

ExecuteLeave(a, o, ok1, ok2, now) ==
    IF o.kind = "raise"
    THEN ExecuteExcept(a, o.message, ok1, now)
    ELSE LET d == [a EXCEPT !.status = COMPLETED, !.result = Some(o.result)]
         IN  IF ok1 THEN Left(d, << LogEntry(d, now) >>, FALSE)
             ELSE ExecuteExcept(d, LogError, ok2, now)

\* a mutant of Collect: an action that failed is left out of the results
CollectCompleted(results, a) ==
    IF a.status = FAILED THEN results ELSE Append(results, a.id)

\* results.append(executed_action) of execute_batch
Collect(results, a) == Append(results, a.id)

---------------------------------------------------------------------------
(* core/prosprint.py *)

\* a mutant of CancelAll: the loop stops after the first action
CancelFirst(st, ids) ==
    [k \in 1..Len(st) |->
        IF ids # << >> /\ ids[1] = k
        THEN [st[k] EXCEPT !.status = CANCELLED]
        ELSE st[k]]

\* a mutant of CancelAll: cancelling stamps the action
CancelAllStamping(st, ids) ==
    [k \in 1..Len(st) |->
        IF \E j \in 1..Len(ids) : ids[j] = k
        THEN [st[k] EXCEPT !.status = CANCELLED, !.executed_at = Some(0)]
        ELSE st[k]]

\* "for action in actions: action.status = CANCELLED"
CancelAll(st, ids) ==
    [k \in 1..Len(st) |->
        IF \E j \in 1..Len(ids) : ids[j] = k
        THEN [st[k] EXCEPT !.status = CANCELLED]
        ELSE st[k]]

\* a mutant of Declined: a refusal is taken for an approval
DeclinedExecutes(st, r) ==
    [store |-> st, pc |-> "executing", outcome |-> "none", how |-> "none"]

\* process_prompt after Confirm.ask answered no: the store, where the call
\* goes on, and how it ends
Declined(st, r) ==
    [store |-> CancelAll(st, r.actions), pc |-> "idle",
     outcome |-> "returned", how |-> "cancelled"]

\* a mutant of AfterPreview: the question is asked whatever the flag
AfterPreviewAsks(acts, auto) ==
    IF acts = << >> THEN "idle" ELSE "asking"

\* a mutant of AfterPreview: an empty list is put to the user like any other
AfterPreviewOfNothing(acts, auto) ==
    IF auto THEN "executing" ELSE "asking"

\* where process_prompt goes on once the actions are shown: it returns when
\* there are none, asks unless auto_approve, and else runs the batch
AfterPreview(acts, auto) ==
    IF acts = << >> THEN "idle"
    ELSE IF auto THEN "executing" ELSE "asking"

---------------------------------------------------------------------------
(* Inputs *)

Fragments ==
  << <<"e", "m", "a", "i", "l">>,
     <<"S", "e", "n", "d">>,
     <<"m", "a", "i", "l">>,
     <<"S", "L", "A", "C", "K">>,
     <<"p", "o", "s", "t">>,
     <<"c", "r", "m">>,
     <<"U", "p", "d", "a", "t", "e">>,
     <<"c", "o", "n", "t", "a", "c", "t">>,
     <<"r", "e", "p", "o", "r", "t">>,
     <<"d", "r", "a", "f", "t">>,
     <<"s", "u", "m", "m", "a", "r", "i", "z", "e">>,
     <<"S", "u", "m", "m", "a", "r", "y">>,
     <<"h", "e", "l", "l", "o">>,
     <<"E">> >>

RECURSIVE Join(_)
Join(ix) == IF ix = << >> THEN << >> ELSE Fragments[Head(ix)] \o Join(Tail(ix))

\* the prompts process is tried on: up to MaxFragments pieces, joined
Pieces == UNION { [1..n -> 1..Len(Fragments)] : n \in 0..MaxFragments }

Element(keys, type, description, parameters) ==
    [keys |-> keys, type |-> type, description |-> description,
     parameters |-> parameters]

Elements ==
    { Element({"type", "description", "parameters"}, SEND_EMAIL, <<"Email John">>,
              << <<"recipient", <<"john@example.com">> >> >>),
      Element({"type", "description"}, CUSTOM, <<"Do it">>, << >>),
      Element({"type", "description", "parameters"}, "phone_call", <<"Call John">>, << >>),
      Element({"description", "parameters"}, "", <<"Email John">>, << >>),
      Element({"type"}, SLACK_POST, << >>, << >>) }

NoResponse == Response("none", << >>)

\* the answers to a prompt: no answer, no JSON, no array, or an array of up
\* to room elements
Responses(room) ==
    { Response("call_failed", << >>), Response("not_json", << >>),
      Response("scalar", << >>) }
    \cup { Response("array", e) :
             e \in UNION { [1..n -> Elements] : n \in 0..room } }

\* what the language model may answer, if it is asked at all
Answers(api_key, all) == IF Truthy(api_key) THEN all ELSE { NoResponse }

Texts == { << >>, Secret }

\* the environments of the pipeline: with or without a language-model key,
\* and the adapters' credentials all missing or all set
PipelineConfigs ==
    { Config(o, a, IF Truthy(a) THEN <<"#team">> ELSE << >>, a, a, a, a, a, a) :
        o \in Texts, a \in Texts }

\* "emailpost", "crmdraft", "summarize", "hello"
PipelinePrompts ==
    { Join(<<1, 5>>), Join(<<6, 10>>), Join(<<11>>), Join(<<13>>) }

\* the answers of a language model that is reachable: "[]" and one action
PipelineResponses ==
    { Response("array", << >>),
      Response("array", << Element({"type", "description"}, SEND_EMAIL,
                                   <<"Email John">>, << >>) >>) }

---------------------------------------------------------------------------
(* The pipeline: ProSprintAI.process_prompt and ActionExecutor's           *)
(* execute_batch (and through it execute) called by a single-threaded      *)
(* client.                                                                 *)

NoRun ==
    [op |-> "none", actions |-> << >>, results |-> << >>, i |-> 0,
     auto |-> FALSE, asked |-> FALSE, answer |-> "none", files0 |-> << >>,
     previews |-> << >>]

Ret(outcome, how, value) == [outcome |-> outcome, how |-> how, value |-> value]

NoRet == Ret("none", "none", << >>)

NoInput ==
    [prompt |-> << >>, api_key |-> << >>, channel |-> << >>, room |-> 0,
     response |-> NoResponse, called |-> FALSE]

Ids(acts) == [k \in 1..Len(acts) |-> acts[k].id]

Injective(s) == \A i, j \in 1..Len(s) : s[i] = s[j] => i = j

LogOutcomes == IF logFaults THEN BOOLEAN ELSE { TRUE }

\* an operation on the logger under test: its argument, the log directory
\* before it, what it returned, and the operation before it
Call(op, arg, before, value, prev) ==
    [op |-> op, arg |-> arg, before |-> before, value |-> value,
     prev |-> [op |-> prev.op, arg |-> prev.arg]]

NoCall ==
    [op |-> "none", arg |-> 0, before |-> << >>, value |-> << >>,
     prev |-> [op |-> "none", arg |-> 0]]

InitPipeline(faults) ==
    /\ cfg \in PipelineConfigs
    /\ logFaults = faults
    /\ store = << >>
    /\ files = << >>
    /\ today = 1
    /\ loggerDay = LogFile(1)
    /\ pc = "idle"
    /\ run = NoRun
    /\ ret = NoRet
    /\ trace = << >>
    /\ nexec = 0
    /\ pin = NoInput
    /\ pout = << >>
    /\ lg = NoCall
    /\ everExecuting = { }

Init == InitPipeline(FALSE)

InitLogFault == InitPipeline(TRUE)

\* process_prompt up to the approval question (or, auto-approved, up to the
\* batch)
ProcessPrompt(prompt, auto, response) ==
    /\ pc = "idle"
    /\ \E acts \in { Process(prompt, cfg.openai_api_key, cfg.slack_channel,
                              response, Len(store), today) } :
        /\ Len(store) + Len(acts) <= MaxActions
        /\ nexec + Len(acts) <= MaxExec
        /\ store' = store \o acts
        /\ run' = [NoRun EXCEPT !.op = "process_prompt", !.actions = Ids(acts),
                                !.i = 1, !.auto = auto,
                                !.asked = (acts # << >> /\ ~auto),
                                !.files0 = files,
                                !.previews = [k \in 1..Len(acts) |-> ToPreview(acts[k])]]
        /\ trace' = << >>
        /\ pc' = AfterPreview(acts, auto)
        /\ ret' = IF acts = << >> THEN Ret("returned", "empty", << >>) ELSE NoRet
    /\ UNCHANGED << lg, everExecuting, cfg, logFaults, files, today, loggerDay, nexec, pin, pout >>

\* a mutant of Approve: the approval is recorded on the actions
ApproveMarking ==
    /\ pc = "asking"
    /\ pc' = "executing"
    /\ run' = [run EXCEPT !.answer = "yes"]
    /\ store' = [k \in 1..Len(store) |->
                    IF \E j \in 1..Len(run.actions) : run.actions[j] = k
                    THEN [store[k] EXCEPT !.status = APPROVED] ELSE store[k]]
    /\ UNCHANGED << lg, everExecuting, cfg, logFaults, files, today, loggerDay, ret,
                    trace, nexec, pin, pout >>

\* Confirm.ask answered yes
Approve ==
    /\ pc = "asking"
    /\ pc' = "executing"
    /\ run' = [run EXCEPT !.answer = "yes"]
    /\ UNCHANGED << lg, everExecuting, cfg, logFaults, store, files, today, loggerDay, ret, trace,
                    nexec, pin, pout >>

\* Confirm.ask answered no
Decline ==
    /\ pc = "asking"
    /\ LET d == Declined(store, run)
       IN  /\ store' = d.store
           /\ pc' = d.pc
           /\ ret' = Ret(d.outcome, d.how, run.actions)
    /\ run' = [run EXCEPT !.answer = "no"]
    /\ UNCHANGED << lg, everExecuting, cfg, logFaults, files, today, loggerDay, trace, nexec, pin,
                    pout >>

\* executor.execute_batch(actions) called on Action objects at hand
ExecuteBatch(ids) ==
    /\ pc = "idle"
    /\ nexec + Len(ids) <= MaxExec
    /\ run' = [NoRun EXCEPT !.op = "execute_batch", !.actions = ids, !.i = 1,
                            !.files0 = files]
    /\ trace' = << >>
    /\ ret' = NoRet
    /\ pc' = "executing"
    /\ UNCHANGED << lg, everExecuting, cfg, logFaults, store, files, today, loggerDay, nexec, pin, pout >>

\* a mutant of Enter: the batch dispatches all its remaining actions at once
EnterAll ==
    /\ pc = "executing"
    /\ run.i <= Len(run.actions)
    /\ store' = [k \in 1..Len(store) |->
                    IF \E j \in run.i..Len(run.actions) : run.actions[j] = k
                    THEN ExecuteEnter(store[k], today) ELSE store[k]]
    /\ everExecuting' = everExecuting \cup { run.actions[j] : j \in run.i..Len(run.actions) }
    /\ nexec' = nexec + 1
    /\ pc' = "dispatched"
    /\ UNCHANGED << lg, cfg, logFaults, files, today, loggerDay, run, ret, trace,
                    pin, pout >>

\* execute, up to the call of the adapter
Enter ==
    /\ pc = "executing"
    /\ run.i <= Len(run.actions)
    /\ store' = [store EXCEPT ![run.actions[run.i]] = ExecuteEnter(@, today)]
    /\ everExecuting' = everExecuting \cup { run.actions[run.i] }
    /\ nexec' = nexec + 1
    /\ pc' = "dispatched"
    /\ UNCHANGED << lg, cfg, logFaults, files, today, loggerDay, run, ret, trace,
                    pin, pout >>

\* execute, from the adapter's return or raise to its own; execute_batch
\* collects the action, or the exception passes through it to the caller
Leave ==
    /\ pc = "dispatched"
    /\ \E o \in Dispatch(cfg, store[run.actions[run.i]]), ok1, ok2 \in LogOutcomes :
         \E id \in { run.actions[run.i] } :
         \E l \in { ExecuteLeave(store[id], o, ok1, ok2, today) } :
             /\ store' = [store EXCEPT ![id] = l.action]
             /\ files' = Written(files, loggerDay, l.appended)
             /\ trace' = IF Adapter(store[id].type) = "none" THEN trace
                         ELSE Append(trace, [pos |-> run.i, id |-> id,
                                             adapter |-> Adapter(store[id].type),
                                             kind |-> o.kind])
             /\ run' = [run EXCEPT !.results = IF l.raised THEN @ ELSE Collect(@, l.action),
                                   !.i = IF l.raised THEN @ ELSE @ + 1]
             /\ pc' = IF l.raised THEN "idle" ELSE "executing"
             /\ ret' = IF l.raised THEN Ret("raised", "exception", << >>) ELSE ret
    /\ UNCHANGED << lg, everExecuting, cfg, logFaults, today, loggerDay, nexec, pin, pout >>

\* execute_batch returns its results (process_prompt displays and returns
\* them)
Return ==
    /\ pc = "executing"
    /\ run.i > Len(run.actions)
    /\ ret' = Ret("returned",
                  IF run.op = "process_prompt" THEN "reported" ELSE run.op,
                  run.results)
    /\ pc' = "idle"
    /\ UNCHANGED << lg, everExecuting, cfg, logFaults, store, files, today, loggerDay, run, trace,
                    nexec, pin, pout >>

Batches ==
    { ids \in UNION { [1..n -> 1..Len(store)] : n \in 0..MaxBatch } : Injective(ids) }

Next ==
    \/ \E prompt \in PipelinePrompts, auto \in BOOLEAN,
          response \in Answers(cfg.openai_api_key, PipelineResponses) :
            ProcessPrompt(prompt, auto, response)
    \/ Approve
    \/ Decline
    \/ \E ids \in Batches : ExecuteBatch(ids)
    \/ Enter
    \/ Leave
    \/ Return

\* the pipeline on a file system that takes every append
Spec == Init /\ [][Next]_vars

\* the pipeline on a file system that may refuse an append
SpecLogFault == InitLogFault /\ [][Next]_vars

\* Ctrl-C while the adapter call of execute is under way: KeyboardInterrupt is
\* no Exception, so the except clause of execute lets it pass, and so do
\* execute_batch and process_prompt; the interactive loop of the demo command
\* catches it and ends
Interrupt ==
    /\ pc = "dispatched"
    /\ pc' = "idle"
    /\ ret' = Ret("raised", "interrupt", << >>)
    /\ UNCHANGED << lg, everExecuting, cfg, logFaults, store, files, today,
                    loggerDay, run, trace, nexec, pin, pout >>

NextInterrupt == Next \/ Interrupt

\* the pipeline with a user who may interrupt it
SpecInterrupt == Init /\ [][NextInterrupt]_vars

\* the pipeline when a call that can take a step does take it: the program
\* is sequential and every adapter call returns or raises
SpecFair ==
    /\ Init /\ [][Next]_vars
    /\ WF_vars(Enter) /\ WF_vars(Leave) /\ WF_vars(Return)

---------------------------------------------------------------------------
(* PromptProcessor.process as a function of the prompt, the processor's    *)
(* key, the configured channel and the language model's answer             *)

InitProcess ==
    /\ pin \in { [NoInput EXCEPT !.prompt = Join(ix), !.api_key = k,
                                 !.room = IF Truthy(k) THEN MaxInput - Len(ix) ELSE 0] :
                   ix \in Pieces, k \in Texts }
    /\ pout = << >>
    /\ cfg = Config(<< >>, << >>, << >>, << >>, << >>, << >>, << >>, << >>, << >>)
    /\ logFaults = FALSE
    /\ store = << >>
    /\ files = << >>
    /\ today = 1
    /\ loggerDay = LogFile(1)
    /\ pc = "idle"
    /\ run = NoRun
    /\ ret = NoRet
    /\ trace = << >>
    /\ nexec = 0
    /\ lg = NoCall
    /\ everExecuting = { }

CallProcess(response) ==
    /\ ~pin.called
    /\ pout' = Process(pin.prompt, pin.api_key, pin.channel, response, 0, today)
    /\ pin' = [pin EXCEPT !.called = TRUE, !.response = response]
    /\ UNCHANGED << lg, everExecuting, cfg, logFaults, store, files, today, loggerDay, pc, run, ret,
                    trace, nexec >>

\* process is called once, with one of the answers its prompt may get
NextProcess ==
    /\ ~pin.called
    /\ \E response \in Answers(pin.api_key, Responses(pin.room)) : CallProcess(response)

SpecProcess == InitProcess /\ [][NextProcess]_vars

---------------------------------------------------------------------------
(* One ActivityLogger at a time, called by a single-threaded client that   *)
(* logs actions and reads the log while the days pass; the client may      *)
(* construct a new logger on the same directory at any time.               *)

\* the actions the client logs: one that completed and one still pending
LoggerActions ==
    << [ExecuteEnter(Action(1, CUSTOM, <<"Do it">>, << <<"prompt", <<"Do it">> >> >>, 1), 1)
           EXCEPT !.status = COMPLETED,
                  !.result = Some(<< <<"status", <<"completed">> >> >>)],
       Action(2, SLACK_POST, <<"Post message to Slack">>,
              << <<"message", <<"hi">> >> >>, 1) >>

\* the dates get_logs_by_date is asked for: the days of the model and a day
\* no logger lived on
Dates == { Strftime(d) : d \in 1..MaxDay } \cup { "19991231" }

RECURSIVE Records(_, _)
\* the number of records in the files of the first n days
Records(fs, n) ==
    IF n = 0 THEN 0 ELSE Len(ReadLines(fs, DayNames[n])) + Records(fs, n - 1)

InitLogger ==
    /\ store = LoggerActions
    /\ files = << >>
    /\ today = 1
    /\ loggerDay = LogFile(1)
    /\ lg = NoCall
    /\ cfg = Config(<< >>, << >>, << >>, << >>, << >>, << >>, << >>, << >>, << >>)
    /\ logFaults = FALSE
    /\ pc = "idle"
    /\ run = NoRun
    /\ ret = NoRet
    /\ trace = << >>
    /\ nexec = 0
    /\ pin = NoInput
    /\ pout = << >>
    /\ everExecuting = { 1 }

\* logger.log_action(action)
CallLogAction(k) ==
    /\ Records(files, Len(DayNames)) < MaxRecords
    /\ files' = Written(files, loggerDay, << LogEntry(store[k], today) >>)
    /\ lg' = Call("log_action", k, files, << >>, lg)
    /\ UNCHANGED << cfg, logFaults, store, today, loggerDay, pc, run, ret, trace,
                    nexec, pin, pout, everExecuting >>

\* logger.get_recent_logs(limit)
CallGetRecentLogs(limit) ==
    /\ lg' = Call("get_recent_logs", limit, files,
                  GetRecentLogs(files, loggerDay, limit), lg)
    /\ UNCHANGED << cfg, logFaults, store, files, today, loggerDay, pc, run, ret,
                    trace, nexec, pin, pout, everExecuting >>

\* logger.get_logs_by_date(date)
CallGetLogsByDate(date) ==
    /\ lg' = Call("get_logs_by_date", date, files, GetLogsByDate(files, date), lg)
    /\ UNCHANGED << cfg, logFaults, store, files, today, loggerDay, pc, run, ret,
                    trace, nexec, pin, pout, everExecuting >>

\* midnight passes
DayChange ==
    /\ today < MaxDay
    /\ today' = today + 1
    /\ lg' = Call("day_change", 0, files, << >>, lg)
    /\ UNCHANGED << cfg, logFaults, store, files, loggerDay, pc, run, ret, trace,
                    nexec, pin, pout, everExecuting >>

\* logger = ActivityLogger(log_dir), in place of the one before
NewLogger ==
    /\ loggerDay # LogFile(today)
    /\ loggerDay' = LogFile(today)
    /\ lg' = Call("__init__", 0, files, << >>, lg)
    /\ UNCHANGED << cfg, logFaults, store, files, today, pc, run, ret, trace,
                    nexec, pin, pout, everExecuting >>

NextLogger ==
    \/ \E k \in 1..Len(store) : CallLogAction(k)
    \/ \E limit \in 0..MaxLimit : CallGetRecentLogs(limit)
    \/ \E date \in Dates : CallGetLogsByDate(date)
    \/ DayChange
    \/ NewLogger

SpecLogger == InitLogger /\ [][NextLogger]_vars

---------------------------------------------------------------------------
(* ActionExecutor.execute (through execute_batch) on one action of any     *)
(* type, by an executor whose adapters were constructed in any environment. *)

\* the environments of the adapters: each credential set or missing
AdapterConfigs ==
    { Config(<< >>, slack, IF Truthy(slack) THEN <<"#team">> ELSE << >>,
             host, user, password, crmkey, crmurl, doc) :
        slack \in Texts, host \in Texts, user \in Texts, password \in Texts,
        crmkey \in Texts, crmurl \in Texts, doc \in Texts }

\* the actions execute is tried on: one of each type, as the tests build them
ExecuteInputs ==
    { Action(1, CRM_UPDATE, <<"Test CRM update">>,
             << <<"action", <<"update">> >>, <<"details", <<"Test">> >> >>, 1),
      Action(1, SEND_EMAIL, <<"Test email">>,
             << <<"recipient", <<"john@example.com">> >>,
                <<"subject", <<"Q4">> >>, <<"body", <<"Hello">> >> >>, 1),
      Action(1, SLACK_POST, <<"Test post">>, << <<"message", <<"hi">> >> >>, 1),
      Action(1, DRAFT_REPORT, <<"Test report">>,
             << <<"title", <<"Test Report">> >>, <<"content", <<"Test content">> >> >>, 1),
      Action(1, SUMMARIZE_DOCUMENT, <<"Test summarization">>,
             << <<"text", <<"This is a long text">> >> >>, 1),
      Action(1, CUSTOM, <<"Test custom">>, << >>, 1) }

InitExecute ==
    /\ cfg \in AdapterConfigs
    /\ store \in { << a >> : a \in ExecuteInputs }
    /\ logFaults = FALSE
    /\ files = << >>
    /\ today = 1
    /\ loggerDay = LogFile(1)
    /\ pc = "idle"
    /\ run = NoRun
    /\ ret = NoRet
    /\ trace = << >>
    /\ nexec = 0
    /\ pin = NoInput
    /\ pout = << >>
    /\ lg = NoCall
    /\ everExecuting = { }

NextExecute ==
    \/ \E ids \in Batches : ExecuteBatch(ids)
    \/ Enter
    \/ Leave
    \/ Return

SpecExecute == InitExecute /\ [][NextExecute]_vars

---------------------------------------------------------------------------
(* Properties *)

\* the last call has ended
Ended == pc = "idle" /\ ret.outcome # "none"

\* the last call ran execute_batch to its end
BatchReturned == Ended /\ ret.how \in {"execute_batch", "reported"}

Terminal(a) == a.status \in {COMPLETED, FAILED}

\* C1: execute_batch returns a list as long as its input whose k-th element
\* is the k-th action of the input, whatever the adapters returned or raised;
\* and no outcome of an adapter keeps it from returning.
C1_BatchReturnsInput ==
    /\ BatchReturned => ret.value = run.actions
    /\ ret.outcome # "raised"

C1_Witness ==
    /\ BatchReturned
    /\ Len(ret.value) = 2
    /\ \E t \in 1..Len(trace) : trace[t].kind = "raise"
    /\ \E t \in 1..Len(trace) : trace[t].kind = "return"

\* C2: when the adapter call of the action at position i of a batch raises,
\* action i ends FAILED with an error, and once the call of execute_batch is
\* over every action after position i is COMPLETED or FAILED.
C2_FailureIsolated ==
    Ended =>
        \A t \in 1..Len(trace) :
            trace[t].kind = "raise" =>
                /\ store[trace[t].id].status = FAILED
                /\ store[trace[t].id].error # None
                /\ \A j \in (trace[t].pos + 1)..Len(run.actions) :
                       Terminal(store[run.actions[j]])

C2_Witness ==
    /\ Ended
    /\ Len(run.actions) = 2
    /\ Len(trace) = 2
    /\ trace[1].pos = 1 /\ trace[1].kind = "raise"
    /\ store[run.actions[1]].status = FAILED
    /\ store[run.actions[2]].status = COMPLETED

\* C3: no error raised while execute handles an action reaches the caller of
\* execute or execute_batch, be it raised by the adapter or by the log append.
C3_ExecuteNeverRaises == ret.outcome # "raised"

\* C4: an action that is COMPLETED has a result and no error, one that is
\* FAILED has an error and no result, and in every other status both are null.
C4_ResultXorError ==
    \A k \in 1..Len(store) :
        /\ store[k].status = COMPLETED =>
               store[k].result # None /\ store[k].error = None
        /\ store[k].status = FAILED =>
               store[k].error # None /\ store[k].result = None
        /\ store[k].status \notin {COMPLETED, FAILED} =>
               store[k].result = None /\ store[k].error = None

\* C5: when approval is declined, process_prompt returns its actions all
\* CANCELLED, without having invoked execute_batch or any adapter and without
\* a record appended to the activity log.
C5_DeclineCancelsAll ==
    run.answer = "no" =>
        /\ Ended /\ ret.outcome = "returned" /\ ret.value = run.actions
        /\ \A j \in 1..Len(ret.value) : store[ret.value[j]].status = CANCELLED
        /\ run.results = << >> /\ run.i = 1
        /\ trace = << >>
        /\ files = run.files0

C5_Witness ==
    /\ run.answer = "no"
    /\ Len(ret.value) = 2
    /\ \A j \in 1..Len(ret.value) : store[ret.value[j]].status = CANCELLED
    /\ run.asked /\ ~run.auto

\* the upper-case letter of each lower-case letter
UpperOf ==
    [c \in { LowerLetters[i] : i \in 1..Len(LowerLetters) } |->
        UpperLetters[CHOOSE i \in 1..Len(LowerLetters) : LowerLetters[i] = c]]

\* the keyword occurs in the prompt, each letter in either case
Occurs(kw, prompt) ==
    \E i \in 0..(Len(prompt) - Len(kw)) :
        \A k \in 1..Len(kw) : prompt[i + k] = kw[k] \/ prompt[i + k] = UpperOf[kw[k]]

AsksEmail(p) == Occurs(KW_email, p) \/ (Occurs(KW_send, p) /\ Occurs(KW_mail, p))
AsksSlack(p) == Occurs(KW_slack, p) \/ Occurs(KW_post, p)
AsksCRM(p) == Occurs(KW_crm, p) \/ (Occurs(KW_update, p) /\ Occurs(KW_contact, p))
AsksReport(p) == Occurs(KW_report, p) \/ Occurs(KW_draft, p)
AsksSummary(p) == Occurs(KW_summarize, p) \/ Occurs(KW_summary, p)

\* an element of the response that is no valid action
Invalid(d) ==
    "type" \notin d.keys \/ "description" \notin d.keys \/ d.type \notin ActionType

\* the language model was asked and its answer is no array of valid actions
PrimaryFailed ==
    /\ pin.called
    /\ Truthy(pin.api_key)
    /\ \/ pin.response.kind # "array"
       \/ \E i \in 1..Len(pin.response.elements) : Invalid(pin.response.elements[i])

\* process took the fallback path
FellBack == pin.called /\ (~Truthy(pin.api_key) \/ PrimaryFailed)

\* what makes two actions the same to the caller, ids and timestamps aside
Content(a) == << a.type, a.description, a.parameters >>

\* C6: process returns at least one action, each PENDING, with and without a
\* language-model client and whatever the language model answers.
C6_AtLeastOnePending ==
    pin.called =>
        /\ Len(pout) >= 1
        /\ \A k \in 1..Len(pout) : pout[k].status = PENDING

\* C7: when the call of the language model fails, its answer does not parse,
\* or an element of it is invalid, process returns what the fallback path
\* returns for the prompt: the same types, descriptions and parameters in the
\* same order.
C7_FailsClosed ==
    PrimaryFailed =>
        \E fallback \in { ProcessFallback(pin.prompt, pin.channel, 0, today) } :
            /\ Len(pout) = Len(fallback)
            /\ \A k \in 1..Len(pout) : Content(pout[k]) = Content(fallback[k])

C7_Witness ==
    /\ PrimaryFailed
    /\ Len(pin.response.elements) = 2
    /\ ~Invalid(pin.response.elements[1])
    /\ Invalid(pin.response.elements[2])
    /\ Len(pout) = 2
    /\ pout[1].type = SLACK_POST /\ pout[2].type = DRAFT_REPORT

\* C8: without a language-model client, a prompt that contains "email", or
\* "send" and "mail", in any case of the letters, yields a SEND_EMAIL action
\* whose parameters.body is the prompt; "slack" or "post" a SLACK_POST action;
\* "crm", or "update" and "contact", a CRM_UPDATE action; "report" or "draft"
\* a DRAFT_REPORT action; "summarize" or "summary" a SUMMARIZE_DOCUMENT action.
C8_KeywordsYieldActions ==
    (pin.called /\ ~Truthy(pin.api_key)) =>
        /\ AsksEmail(pin.prompt) =>
               \E k \in 1..Len(pout) :
                   /\ pout[k].type = SEND_EMAIL
                   /\ DictHas(pout[k].parameters, "body")
                   /\ DictGet(pout[k].parameters, "body", << >>) = pin.prompt
        /\ AsksSlack(pin.prompt) => \E k \in 1..Len(pout) : pout[k].type = SLACK_POST
        /\ AsksCRM(pin.prompt) => \E k \in 1..Len(pout) : pout[k].type = CRM_UPDATE
        /\ AsksReport(pin.prompt) => \E k \in 1..Len(pout) : pout[k].type = DRAFT_REPORT
        /\ AsksSummary(pin.prompt) =>
               \E k \in 1..Len(pout) : pout[k].type = SUMMARIZE_DOCUMENT

C8_Witness ==
    /\ pin.called /\ ~Truthy(pin.api_key)
    /\ ~Occurs(KW_email, pin.prompt)
    /\ AsksEmail(pin.prompt)
    /\ ~Contains(pin.prompt, KW_send)
    /\ Len(pout) = 1
    /\ pout[1].type = SEND_EMAIL
    /\ DictGet(pout[1].parameters, "body", << >>) = pin.prompt

\* C9: for a prompt that matches none of the five keyword groups the fallback
\* path returns exactly one action, a CUSTOM one whose parameters hold the
\* prompt unchanged; and it never returns a CUSTOM action with another action.
C9_CustomOnlyAlone ==
    FellBack =>
        /\ ~( \/ AsksEmail(pin.prompt) \/ AsksSlack(pin.prompt) \/ AsksCRM(pin.prompt)
              \/ AsksReport(pin.prompt) \/ AsksSummary(pin.prompt) ) =>
               /\ Len(pout) = 1
               /\ pout[1].type = CUSTOM
               /\ pout[1].parameters = << <<"prompt", pin.prompt>> >>
        /\ (\E k \in 1..Len(pout) : pout[k].type = CUSTOM) => Len(pout) = 1

C9_Witness ==
    /\ FellBack
    /\ Occurs(KW_send, pin.prompt) /\ Occurs(KW_update, pin.prompt)
    /\ Len(pout) = 1
    /\ pout[1].type = CUSTOM
    /\ pout[1].parameters = << <<"prompt", pin.prompt>> >>

\* the adapter execute maps the type to has none of its credentials
Unconfigured(c, type) ==
    CASE type = CRM_UPDATE -> ~Truthy(c.crm_api_key) /\ ~Truthy(c.crm_api_url)
      [] type = SEND_EMAIL ->
            ~Truthy(c.smtp_host) /\ ~Truthy(c.smtp_user) /\ ~Truthy(c.smtp_password)
      [] type = SLACK_POST -> ~Truthy(c.slack_token)
      [] type \in {DRAFT_REPORT, SUMMARIZE_DOCUMENT} -> ~Truthy(c.document_credentials)
      [] OTHER -> FALSE

Simulated(a) ==
    /\ a.status = COMPLETED
    /\ a.error = None
    /\ a.result # None
    /\ DictHas(a.result[1], "status")
    /\ DictGet(a.result[1], "status", << >>) = <<"simulated">>

\* C10: execute of an action of one of the five adapter types, by an executor
\* whose adapter for that type has no credentials, does not raise and returns
\* the action COMPLETED, with no error and result.status "simulated".
C10_UnconfiguredSimulates ==
    /\ \A j \in 1..Len(run.results) :
           Unconfigured(cfg, store[run.results[j]].type) =>
               Simulated(store[run.results[j]])
    /\ ret.outcome = "raised" => ~Unconfigured(cfg, store[run.actions[run.i]].type)

C10_Witness ==
    /\ BatchReturned
    /\ Len(ret.value) = 2
    /\ store[ret.value[1]].type = SEND_EMAIL
    /\ store[ret.value[2]].type = SLACK_POST
    /\ \A j \in 1..2 : Unconfigured(cfg, store[ret.value[j]].type)
    /\ \A j \in 1..2 : Simulated(store[ret.value[j]])


IsPrefix(s, t) == Len(s) <= Len(t) /\ SubSeq(t, 1, Len(s)) = s

\* C11: every call of execute appends exactly one record to the activity log,
\* after the action became COMPLETED or FAILED, carrying the action's id and
\* its final status, result and error; the k-th execute of a batch writes the
\* k-th new record, so a batch of n actions adds exactly n records whether
\* the adapters return or raise.
C11_OneRecordPerExecute ==
    run.op # "none" =>
        LET old == ReadLines(run.files0, loggerDay)
            new == ReadLines(files, loggerDay)
        IN  /\ Len(new) = Len(old) + (run.i - 1)
            /\ files = Written(run.files0, loggerDay, SubSeq(new, Len(old) + 1, Len(new)))
            /\ \A k \in 1..(run.i - 1) :
                   /\ Terminal(store[run.actions[k]])
                   /\ new[Len(old) + k].action_id = run.actions[k]
                   /\ new[Len(old) + k].status = store[run.actions[k]].status
                   /\ new[Len(old) + k].result = store[run.actions[k]].result
                   /\ new[Len(old) + k].error = store[run.actions[k]].error
            /\ BatchReturned => run.i - 1 = Len(run.actions)

C11_Witness ==
    /\ BatchReturned
    /\ Len(run.actions) = 2
    /\ run.files0 = << >>
    /\ Len(ReadLines(files, loggerDay)) = 2
    /\ files[loggerDay][1].status = FAILED /\ files[loggerDay][1].error # None
    /\ files[loggerDay][2].status = COMPLETED /\ files[loggerDay][2].result # None

\* C12: the log is append-only: what a file held before an operation on the
\* logger is a prefix of what it holds after it, and no file disappears;
\* log_action lengthens exactly one file by exactly one record, and
\* get_recent_logs and get_logs_by_date change no file.
C12_AppendOnly ==
    /\ \A d \in DOMAIN lg.before :
           d \in DOMAIN files /\ IsPrefix(lg.before[d], files[d])
    /\ lg.op = "log_action" =>
           \E d \in DOMAIN files :
               /\ Len(files[d]) = Len(ReadLines(lg.before, d)) + 1
               /\ \A e \in DOMAIN files \ { d } :
                      e \in DOMAIN lg.before /\ files[e] = lg.before[e]
    /\ lg.op \in {"get_recent_logs", "get_logs_by_date"} => files = lg.before

C12_Witness ==
    /\ lg.op = "log_action"
    /\ lg.prev.op \in {"get_recent_logs", "get_logs_by_date"}
    /\ Cardinality(DOMAIN files) = 2
    /\ Len(files[loggerDay]) = 2

\* C13: get_recent_logs(limit), for every limit >= 0, returns the last
\* min(limit, n) of the n records of the current day's file, in the order
\* they were appended, and nothing when that file does not exist.
C13_RecentIsTailOfToday ==
    lg.op = "get_recent_logs" =>
        LET f == ReadLines(files, Strftime(today))
            m == IF lg.arg < Len(f) THEN lg.arg ELSE Len(f)
        IN  lg.value = SubSeq(f, Len(f) - m + 1, Len(f))

\* C14: get_recent_logs(1) called right after log_action(a) on the same
\* logger returns exactly one record, and its action id is a.id, whatever
\* the log held before.
C14_ReadYourWrite ==
    (lg.op = "get_recent_logs" /\ lg.arg = 1 /\ lg.prev.op = "log_action") =>
        /\ Len(lg.value) = 1
        /\ lg.value[1].action_id = store[lg.prev.arg].id

C14_Witness ==
    /\ lg.op = "get_recent_logs" /\ lg.arg = 1 /\ lg.prev.op = "log_action"
    /\ Len(ReadLines(files, loggerDay)) = 3
    /\ files[loggerDay][2].action_id # lg.prev.arg
    /\ lg.value = << files[loggerDay][3] >>

\* C15: get_logs_by_date(date) returns all records of the file of that day
\* in append order, nothing when there is no such file, and never a record
\* that was written on another day.
C15_ByDateIsThatDay ==
    lg.op = "get_logs_by_date" =>
        /\ lg.value = ReadLines(files, lg.arg)
        /\ \A i \in 1..Len(lg.value) : Strftime(lg.value[i].timestamp) = lg.arg

\* C16: log_action appends its record to the file of the day that is current
\* when it is called, creating the file if it is absent, also when the logger
\* was constructed on an earlier day.
C16_LogsToCurrentDay ==
    lg.op = "log_action" =>
        files = Written(lg.before, Strftime(today),
                        << LogEntry(store[lg.arg], today) >>)

\* C17: get_recent_logs called after a day boundary returns no record that
\* was written before the boundary, whether the logger was constructed
\* before or after it.
C17_RecentSkipsEarlierDays ==
    lg.op = "get_recent_logs" =>
        \A i \in 1..Len(lg.value) : lg.value[i].timestamp >= today

\* C18: an action that is COMPLETED, FAILED or CANCELLED is not changed by any
\* later step: its status, executed_at, result and error stay as they are.
C18_TerminalImmutable ==
    [][\A k \in 1..Len(store) :
          store[k].status \in {COMPLETED, FAILED, CANCELLED} =>
              /\ store'[k].status = store[k].status
              /\ store'[k].executed_at = store[k].executed_at
              /\ store'[k].result = store[k].result
              /\ store'[k].error = store[k].error]_vars

\* C19: executed_at is non-null exactly for the actions whose status has been
\* EXECUTING at some point: it is null for every PENDING and every CANCELLED
\* action and non-null for every COMPLETED and every FAILED one.
C19_ExecutedAtIffExecuted ==
    \A k \in 1..Len(store) :
        /\ store[k].executed_at # None <=> k \in everExecuting
        /\ store[k].status \in {PENDING, CANCELLED} => store[k].executed_at = None
        /\ store[k].status \in {COMPLETED, FAILED} => store[k].executed_at # None

C19_Witness ==
    \E j, k \in 1..Len(store) :
        /\ store[j].status = CANCELLED /\ store[j].executed_at = None
        /\ store[k].status = FAILED /\ store[k].executed_at # None
        /\ everExecuting = { k }

\* C20: with auto_approve the approval question is never asked, every action
\* the prompt processor returned is passed to execute_batch, and when
\* process_prompt returns each of them is COMPLETED or FAILED, none CANCELLED.
C20_AutoApproveExecutes ==
    (run.op = "process_prompt" /\ run.auto) =>
        /\ pc # "asking" /\ ~run.asked /\ run.answer = "none"
        /\ \A j \in 1..Len(run.actions) : store[run.actions[j]].status # CANCELLED
        /\ (Ended /\ run.actions # << >>) =>
               /\ ret.how = "reported"
               /\ ret.value = run.actions
               /\ \A j \in 1..Len(run.actions) : Terminal(store[run.actions[j]])

C20_Witness ==
    /\ run.op = "process_prompt" /\ run.auto /\ Ended
    /\ Len(run.actions) = 2
    /\ store[run.actions[1]].status = FAILED
    /\ store[run.actions[2]].status = COMPLETED


\* at least one of the credentials the adapter of the type requires is absent
Missing(c, type) ==
    CASE type = CRM_UPDATE -> ~Truthy(c.crm_api_key) \/ ~Truthy(c.crm_api_url)
      [] type = SEND_EMAIL ->
            ~Truthy(c.smtp_host) \/ ~Truthy(c.smtp_user) \/ ~Truthy(c.smtp_password)
      [] type = SLACK_POST -> ~Truthy(c.slack_token)
      [] OTHER -> FALSE

\* result["status"] of an action that has a result
ResultStatus(a) == DictGet(a.result[1], "status", << >>)

\* C21: the CRM, Email and Slack adapters return a result with status
\* "simulated" exactly when a required credential is absent (CRM: api key,
\* api url; Email: host, user, password; Slack: token) and otherwise return
\* one with status "completed" or raise; a result carries no other status
\* and missing credentials never make an adapter raise.
C21_ModeByCredentials ==
    \A t \in 1..Len(trace) :
        trace[t].adapter \in {"crm.execute", "email.execute", "slack.execute"} =>
            LET a == store[trace[t].id]
            IN  /\ Missing(cfg, a.type) =>
                       /\ trace[t].kind = "return"
                       /\ a.status = COMPLETED
                       /\ ResultStatus(a) = <<"simulated">>
                /\ ~Missing(cfg, a.type) =>
                       \/ trace[t].kind = "raise"
                       \/ trace[t].kind = "return" /\ ResultStatus(a) = <<"completed">>
                /\ trace[t].kind = "return" =>
                       /\ DictHas(a.result[1], "status")
                       /\ ResultStatus(a) \in { <<"simulated">>, <<"completed">> }

C21_Witness ==
    /\ Len(trace) = 1
    /\ trace[1].adapter = "crm.execute" /\ trace[1].kind = "return"
    /\ Truthy(cfg.crm_api_key) /\ ~Truthy(cfg.crm_api_url)
    /\ ResultStatus(store[1]) = <<"simulated">>

C27_DispatchOneToOne ==
    run.op # "none" =>
        /\ \A t \in 1..Len(trace) : trace[t].pos \in 1..(run.i - 1)
        /\ \A k \in 1..(run.i - 1) :
               LET a == store[run.actions[k]]
                   calls == { t \in 1..Len(trace) : trace[t].pos = k }
               IN  /\ Cardinality(calls) = (IF a.type = CUSTOM THEN 0 ELSE 1)
                   /\ a.type = CUSTOM =>
                          /\ a.status = COMPLETED
                          /\ a.result # None
                          /\ ResultStatus(a) = <<"completed">>
        /\ \A t \in 1..Len(trace) :
               LET a == store[trace[t].id]
               IN  /\ trace[t].adapter =
                          (CASE a.type = CRM_UPDATE -> "crm.execute"
                             [] a.type = SEND_EMAIL -> "email.execute"
                             [] a.type = SLACK_POST -> "slack.execute"
                             [] a.type = DRAFT_REPORT -> "document.draft_report"
                             [] a.type = SUMMARIZE_DOCUMENT -> "document.summarize")
                   /\ trace[t].kind = "return" =>
                          /\ a.status = COMPLETED
                          /\ a.result # None
                          /\ Returns(a.result[1]) \in
                                 (CASE a.type = CRM_UPDATE -> CRMExecute(cfg, a)
                                    [] a.type = SEND_EMAIL -> EmailExecute(cfg, a)
                                    [] a.type = SLACK_POST -> SlackExecute(cfg, a)
                                    [] a.type = DRAFT_REPORT -> DocumentDraftReport(cfg, a)
                                    [] a.type = SUMMARIZE_DOCUMENT -> DocumentSummarize(cfg, a))

C27_Witness ==
    /\ BatchReturned
    /\ run.actions = << 1 >>
    /\ store[1].type = CUSTOM
    /\ store[1].status = COMPLETED
    /\ trace = << >>

\* C28: no step of execute, of the adapter it calls or of log_action changes
\* an action's id, type, description, parameters or created_at, and no action
\* disappears; after log_action the action is still the one the appended
\* record describes.
C28_FrameOfExecute ==
    [][/\ Len(store') >= Len(store)
       /\ \A k \in 1..Len(store) :
              /\ store'[k].id = store[k].id
              /\ store'[k].type = store[k].type
              /\ store'[k].description = store[k].description
              /\ store'[k].parameters = store[k].parameters
              /\ store'[k].created_at = store[k].created_at
       /\ files' # files =>
              LET f == files'[loggerDay]
              IN  f[Len(f)] = LogEntry(store'[f[Len(f)].action_id], today)]_vars

C28_Witness ==
    /\ nexec = 2
    /\ store[1].type = SEND_EMAIL
    /\ store[1].status = FAILED
    /\ store[1].result # None
    /\ Len(store[1].parameters) = 3
    /\ Len(ReadLines(files, loggerDay)) = 2

RECURSIVE Cat(_)
\* the concatenation of a sequence of strings
Cat(ss) == IF ss = << >> THEN << >> ELSE Head(ss) \o Cat(Tail(ss))

\* C23: to_preview is a function of type, description and parameters alone:
\* the text shown for an action is the type, then the description, then one
\* line per parameter in insertion order; to_preview leaves the action as the
\* processor made it; it gives the same text for the action in every later
\* status, with or without executed_at, result and error, and the same text
\* for two actions that agree on type, description and parameters.
C23_PreviewIsPure ==
    /\ run.op = "process_prompt" =>
           /\ Len(run.previews) = Len(run.actions)
           /\ \A k \in 1..Len(run.actions) :
                  LET a == store[run.actions[k]]
                  IN  /\ run.previews[k] = ToPreview(a)
                      /\ run.previews[k] =
                             Cat(<< <<"Action: ", a.type>>,
                                    <<"\n", "Description: ">> \o a.description,
                                    <<"\n", "Parameters:">> >>
                                 \o [j \in 1..Len(a.parameters) |->
                                        <<"\n", "  - ", a.parameters[j][1], ": ">>
                                            \o a.parameters[j][2]])
                      /\ pc = "asking" =>
                             /\ a.status = PENDING /\ a.executed_at = None
                             /\ a.result = None /\ a.error = None
    /\ \A j, k \in 1..Len(store) :
           Content(store[j]) = Content(store[k]) =>
               ToPreview(store[j]) = ToPreview(store[k])

C23_Witness ==
    /\ run.op = "process_prompt" /\ Ended
    /\ Len(run.actions) = 2
    /\ store[run.actions[1]].type = SEND_EMAIL
    /\ Len(store[run.actions[1]].parameters) = 3
    /\ store[run.actions[1]].status = FAILED
    /\ store[run.actions[2]].status = COMPLETED
    /\ run.previews[1] = ToPreview(store[run.actions[1]])

\* C24: a run of process_prompt that returns ends CANCELLED, every returned
\* action CANCELLED and none of them ever executed, or REPORTED, every returned
\* action COMPLETED or FAILED; the returned list never mixes the two and never
\* holds a PENDING, APPROVED or EXECUTING action.
C24_RunEndsCancelledOrReported ==
    (run.op = "process_prompt" /\ Ended /\ ret.outcome = "returned") =>
        /\ \/ \A k \in 1..Len(ret.value) :
                  /\ store[ret.value[k]].status = CANCELLED
                  /\ ret.value[k] \notin everExecuting
           \/ \A k \in 1..Len(ret.value) : Terminal(store[ret.value[k]])
        /\ ret.how = "cancelled" =>
               /\ trace = << >>
               /\ \A k \in 1..Len(ret.value) : store[ret.value[k]].status = CANCELLED
        /\ ret.how = "reported" =>
               \A k \in 1..Len(ret.value) : Terminal(store[ret.value[k]])
        /\ \A k \in 1..Len(ret.value) :
               store[ret.value[k]].status \notin {PENDING, APPROVED, EXECUTING}

C24_Witness ==
    /\ run.op = "process_prompt" /\ Ended
    /\ ret.how = "reported" /\ run.answer = "yes"
    /\ Len(ret.value) = 2
    /\ store[ret.value[1]].status = COMPLETED
    /\ store[ret.value[2]].status = COMPLETED

\* the call of execute_batch is under way
InBatch == pc \in {"executing", "dispatched"}

\* the action at position k of the running batch has its record in the log
Logged(k) ==
    LET old == ReadLines(run.files0, loggerDay)
        new == ReadLines(files, loggerDay)
    IN  /\ Len(new) >= Len(old) + k
        /\ new[Len(old) + k].action_id = run.actions[k]

\* C29: a batch runs its actions one after the other in input order: an
\* action leaves its pre-execution status only when every action before it
\* in the batch is COMPLETED or FAILED and logged; at most one action is
\* EXECUTING at any time; and the records the batch appends to the log are
\* in the input order of its actions.
C29_Sequential ==
    /\ [](/\ Cardinality({ k \in 1..Len(store) : store[k].status = EXECUTING }) <= 1
          /\ \A k \in 1..Len(store) :
                 store[k].status = EXECUTING =>
                     pc = "dispatched" /\ k = run.actions[run.i]
          /\ InBatch =>
                 /\ Len(ReadLines(files, loggerDay))
                        = Len(ReadLines(run.files0, loggerDay)) + (run.i - 1)
                 /\ \A k \in 1..(run.i - 1) : Logged(k)
                 /\ run.op = "process_prompt" =>
                        \A j \in (run.i + 1)..Len(run.actions) :
                            store[run.actions[j]].status = PENDING)
    /\ [][\A j \in 1..Len(run.actions) :
             (InBatch /\ store'[run.actions[j]].status # store[run.actions[j]].status
                      /\ store'[run.actions[j]].status = EXECUTING) =>
                 \A k \in 1..(j - 1) :
                     Terminal(store[run.actions[k]]) /\ Logged(k)]_vars

C29_Witness ==
    /\ pc = "dispatched"
    /\ run.i = 2
    /\ store[run.actions[1]].status = FAILED
    /\ store[run.actions[2]].status = EXECUTING
    /\ Len(ReadLines(files, loggerDay)) = Len(ReadLines(run.files0, loggerDay)) + 1
    /\ run.files0 # << >>

\* the keyword group of the type occurs in the prompt
Asks(type, p) ==
    CASE type = SEND_EMAIL -> AsksEmail(p)
      [] type = SLACK_POST -> AsksSlack(p)
      [] type = CRM_UPDATE -> AsksCRM(p)
      [] type = DRAFT_REPORT -> AsksReport(p)
      [] type = SUMMARIZE_DOCUMENT -> AsksSummary(p)

\* the types of the matched groups, in the order of the checks
Matched(p) ==
    SelectSeq(<< SEND_EMAIL, SLACK_POST, CRM_UPDATE, DRAFT_REPORT, SUMMARIZE_DOCUMENT >>,
              LAMBDA type : Asks(type, p))

Types(acts) == [k \in 1..Len(acts) |-> acts[k].type]

Contents(acts) == [k \in 1..Len(acts) |-> Content(acts[k])]

\* C25: the fallback path returns one action per matched keyword group, in
\* the order email, slack/post, crm, report/draft, summarize/summary, never two
\* of one type; so as many actions as groups match, and one CUSTOM action
\* when none matches.
C25_OnePerMatchedGroup ==
    FellBack =>
        \E m \in { Matched(pin.prompt) } :
            Types(pout) = (IF m = << >> THEN << CUSTOM >> ELSE m)

C25_Witness ==
    /\ FellBack
    /\ Occurs(KW_slack, pin.prompt) /\ Occurs(KW_post, pin.prompt)
    /\ Types(pout) = << SLACK_POST >>

\* the lower-case letter of each upper-case letter, from UpperOf
DownOf ==
    [u \in { UpperOf[c] : c \in DOMAIN UpperOf } |->
        CHOOSE c \in DOMAIN UpperOf : UpperOf[c] = u]

\* the prompt with every letter in upper case (up) or in lower case
Fold(p, up) ==
    [i \in 1..Len(p) |->
        IF up THEN (IF p[i] \in DOMAIN UpperOf THEN UpperOf[p[i]] ELSE p[i])
        ELSE (IF p[i] \in DOMAIN DownOf THEN DownOf[p[i]] ELSE p[i])]

\* the prompt with the case of every letter inverted
SwapCase(p) ==
    [i \in 1..Len(p) |->
        IF p[i] \in DOMAIN UpperOf THEN UpperOf[p[i]]
        ELSE IF p[i] \in DOMAIN DownOf THEN DownOf[p[i]] ELSE p[i]]

\* C26: another call of the fallback path with the same prompt returns the
\* same types, descriptions and parameters under other ids and timestamps,
\* and a call with the prompt in another letter case (all upper, all lower,
\* every letter inverted) returns the same sequence of types.
C26_DeterministicCaseBlind ==
    FellBack =>
        /\ Contents(ProcessFallback(pin.prompt, pin.channel, 7, today + 1))
               = Contents(pout)
        /\ \A q \in { Fold(pin.prompt, TRUE), Fold(pin.prompt, FALSE),
                       SwapCase(pin.prompt) } :
               Types(ProcessFallback(q, pin.channel, 0, today)) = Types(pout)

C26_Witness ==
    /\ FellBack
    /\ pin.prompt # Fold(pin.prompt, TRUE)
    /\ pin.prompt # Fold(pin.prompt, FALSE)
    /\ Types(pout) = << SEND_EMAIL, SLACK_POST >>

\* C30: when the language model answers with an array, process returns one
\* action per element, in array order, with the element's type, description
\* and parameters, if every element is valid; if the element at any position
\* is invalid it returns what the fallback path returns, and none of the
\* actions of the valid elements before it.
C30_AllOrNothing ==
    (pin.called /\ Truthy(pin.api_key) /\ pin.response.kind = "array") =>
        \E es \in { pin.response.elements } :
            IF \E i \in 1..Len(es) : Invalid(es[i])
            THEN /\ Contents(pout)
                        = Contents(ProcessFallback(pin.prompt, pin.channel, 0, today))
                 /\ \A k \in 1..Len(pout), i \in 1..Len(es) :
                        ~Invalid(es[i]) =>
                            << pout[k].type, pout[k].description >>
                                # << es[i].type, es[i].description >>
            ELSE /\ Len(pout) = Len(es)
                 /\ \A k \in 1..Len(es) :
                        /\ pout[k].type = es[k].type
                        /\ pout[k].description = es[k].description
                        /\ pout[k].parameters =
                               (IF "parameters" \in es[k].keys THEN es[k].parameters
                                ELSE << >>)

C30_Witness ==
    /\ pin.called /\ Truthy(pin.api_key) /\ pin.response.kind = "array"
    /\ Len(pin.response.elements) = 3
    /\ ~Invalid(pin.response.elements[1])
    /\ ~Invalid(pin.response.elements[2])
    /\ pin.response.elements[1] # pin.response.elements[2]
    /\ Invalid(pin.response.elements[3])
    /\ Types(pout) = << DRAFT_REPORT >>

\* C31: an interrupt delivered while an action of a batch is executing does
\* not keep that action and the actions after it from becoming COMPLETED or
\* FAILED: when control is back at the caller, no action is EXECUTING and
\* every action of a batch that was started is COMPLETED or FAILED.
C31_InterruptCannotStopBatch ==
    pc = "idle" =>
        /\ \A k \in 1..Len(store) : store[k].status # EXECUTING
        /\ (run.op # "none" /\ run.answer # "no") =>
               \A j \in 1..Len(run.actions) : Terminal(store[run.actions[j]])

\* C32: when the adapter call of an action raises, the action ends FAILED
\* with the message of the exception as its error and no result, and a record
\* with status "failed" and that error is appended to the log.
C32_AdapterFailureRecorded ==
    \A t \in 1..Len(trace) :
        trace[t].kind = "raise" =>
            LET a == store[trace[t].id]
            IN  /\ a.status = FAILED
                /\ a.error # None
                /\ Raises(a.error[1]) \in Dispatch(cfg, a)
                /\ a.result = None
                /\ Logged(trace[t].pos)
                /\ \E r \in { ReadLines(files, loggerDay)
                                 [Len(ReadLines(run.files0, loggerDay)) + trace[t].pos] } :
                       r.status = FAILED /\ r.error = a.error

\* C33: a batch that has started comes to its end, and then every action of
\* it is COMPLETED or FAILED; so does process_prompt once the approval was
\* given, its batch being started by the answer.
C33_BatchTerminates ==
    InBatch ~> (/\ pc = "idle"
                /\ ret.outcome = "returned"
                /\ ret.value = run.actions
                /\ \A j \in 1..Len(run.actions) : Terminal(store[run.actions[j]]))

C33_Witness ==
    /\ pc = "idle" /\ ret.outcome = "returned"
    /\ run.op = "execute_batch"
    /\ Len(run.actions) = 2
    /\ ret.value = run.actions
    /\ store[run.actions[1]].status = FAILED
    /\ store[run.actions[2]].status = FAILED

\* C34: no action ever has the status APPROVED and no record of the log has
\* it: in an approved run as in an auto-approved one the actions are PENDING
\* until execute makes them EXECUTING.
C34_NeverApproved ==
    /\ \A k \in 1..Len(store) : store[k].status # APPROVED
    /\ \A d \in DOMAIN files : \A n \in 1..Len(files[d]) : files[d][n].status # APPROVED
    /\ (run.op = "process_prompt" /\ InBatch) =>
           \A j \in 1..Len(run.actions) :
               (j > run.i \/ (j = run.i /\ pc = "executing")) =>
                   store[run.actions[j]].status = PENDING

C34_Witness ==
    /\ run.op = "process_prompt" /\ run.answer = "yes"
    /\ pc = "dispatched" /\ run.i = 1
    /\ Len(run.actions) = 2
    /\ store[run.actions[1]].status = EXECUTING
    /\ store[run.actions[2]].status = PENDING

\* C35: declining turns each action of the run from PENDING to CANCELLED and
\* changes nothing else of it: executed_at, result and error stay null, id,
\* type, description, parameters and created_at stay what they were.
C35_CancelChangesStatusOnly ==
    [][(run'.answer = "no" /\ run.answer # "no") =>
          \A j \in 1..Len(run.actions) :
              /\ store[run.actions[j]].status = PENDING
              /\ store'[run.actions[j]] =
                     [store[run.actions[j]] EXCEPT !.status = CANCELLED]
              /\ store'[run.actions[j]].executed_at = None
              /\ store'[run.actions[j]].result = None
              /\ store'[run.actions[j]].error = None]_vars

C35_Witness ==
    /\ run.answer = "no" /\ pc = "idle"
    /\ Len(run.actions) = 1
    /\ store[run.actions[1]].status = CANCELLED
    /\ store[run.actions[1]].type = SUMMARIZE_DOCUMENT
    /\ store[run.actions[1]].parameters # << >>
    /\ store[run.actions[1]].executed_at = None

\* C36: when the prompt processor returns no action, process_prompt returns
\* an empty list at once: nothing is previewed, the question is not asked,
\* neither the executor nor an adapter is called and the log stays as it was.
C36_NothingToDo ==
    (run.op = "process_prompt" /\ run.actions = << >>) =>
        /\ pc = "idle"
        /\ ret = Ret("returned", "empty", << >>)
        /\ run.previews = << >>
        /\ ~run.asked /\ run.answer = "none"
        /\ run.results = << >> /\ trace = << >>
        /\ files = run.files0

C36_Witness ==
    /\ run.op = "process_prompt" /\ run.actions = << >>
    /\ ~run.auto
    /\ ret.how = "empty"
    /\ run.files0 # << >>

====
